---- MODULE Spec2Model ----
(***************************************************************************)
(* Model of the credential / certificate lifecycle subsystem.             *)
(*                                                                         *)
(*   models/models.go          the repository: VirtualMachine and          *)
(*                             SSHPublicKey rows and their Create, Update  *)
(*                             and Delete statements                       *)
(*   ssh_config/ssh_config.go  the certificate manager and the root        *)
(*                             credentials manager, which talk to the host *)
(*                             control plane                               *)
(*                                                                         *)
(* Three specifications share the variables:                               *)
(*   Spec          sequential repository operations                        *)
(*   SpecRotation  concurrent SSHPublicKey.Update calls on existing rows   *)
(*   SpecSsh       invocations of the control-plane managers               *)
(***************************************************************************)
EXTENDS Integers, Sequences, FiniteSets

VARIABLES
    vms,        \* rows of the VirtualMachine table
    keys,       \* rows of the SSHPublicKey table
    nextVmId,   \* next value of the VirtualMachine id sequence
    nextKeyId,  \* next value of the SSHPublicKey id sequence
    last,       \* the repository call that returned last, with its error
    rot,        \* per caller: the SSHPublicKey.Update call it has in flight
    completed,  \* the UPDATE statements the database has executed, in order
    pc,         \* position of the control-plane manager call in progress
    call,       \* the manager method invoked and its arguments
    calls,      \* control-plane requests issued by the call, in order
    sink,       \* everything written to Logger
    logMark,    \* length of sink when the call started
    ret         \* what the call handed back to its caller

vars == <<vms, keys, nextVmId, nextKeyId, last, rot, completed,
          pc, call, calls, sink, logMark, ret>>

repoVars == <<vms, keys, nextVmId, nextKeyId, last>>
rotVars  == <<rot, completed>>
sshVars  == <<pc, call, calls, sink, logMark, ret>>

-----------------------------------------------------------------------------
(* Bounds *)

MaxVmId     == 2    \* VirtualMachine ids handed out
MaxKeyId    == 2    \* SSHPublicKey ids handed out
MaxRotations == 3   \* Update calls in one run of SpecRotation
MaxLog      == 3    \* events the log sink holds

(* Input domains *)

Owners    == {"alice", "bob"}
Names     == {"web-1", "web-2"}
Paths     == {"/dc/vm"}
Addresses == {"10.0.0.5", "10.0.0.6"}
Suffixes  == {"u1", "u2"}
KeyBlobs  == {"k1", "k2"}
Filenames == {"ssh_key.pub"}
VmRefs    == 1 .. 2          \* values a key's VirtualMachineID takes
Callers   == {"c1", "c2"}

VMNames   == {"web-1", "web-2"}   \* what VirtualMachine.Name() answers
Uuids     == {"uuid-a", "uuid-b"}

NoCall == [op |-> "none", id |-> 0, hit |-> FALSE, err |-> "nil"]

\* A returned pointer is <<>> when nil and <<v>> when it points to v.
NoReturn == [kind |-> "none", val |-> <<>>, err |-> "nil"]

-----------------------------------------------------------------------------
(* models.go: VirtualMachine *)

\* A name is the sequence of its parts; the parts are joined by "_".
NewVirtualMachine(id, OwnerId, VirtualMachineName, ItemPath, IPAddress) ==
    [ID |-> id, DeletedAt |-> FALSE,
     OwnerId |-> OwnerId, VirtualMachineName |-> <<VirtualMachineName>>,
     ItemPath |-> ItemPath, IPAddress |-> IPAddress]

\* The assignment of the DoUpdates clause, applied to the row in conflict.
OnConflictAssignments(r, suffix) ==
    [r EXCEPT !.VirtualMachineName = Append(r.VirtualMachineName, suffix)]

VirtualMachineInsert_UpdateAll(rows, new, suffix) ==
    LET conflict == {r \in rows : r.VirtualMachineName = new.VirtualMachineName}
        updated  == {[OnConflictAssignments(r, suffix) EXCEPT
                        !.OwnerId = new.OwnerId,
                        !.ItemPath = new.ItemPath,
                        !.IPAddress = new.IPAddress] : r \in conflict}
    IN  IF conflict # {}
        THEN [rows |-> (rows \ conflict) \cup updated, id |-> 0, err |-> "nil"]
        ELSE [rows |-> rows \cup {new}, id |-> new.ID, err |-> "nil"]

\* INSERT ... ON CONFLICT (VirtualMachineName) DO UPDATE SET ... as the
\* database runs it once it has accepted the statement: a proposed row whose
\* name an existing row has is not inserted, the existing row is updated
\* instead; otherwise the row is inserted unless a unique column rejects it.
VirtualMachineInsert(rows, new, suffix) ==
    LET conflict == {r \in rows : r.VirtualMachineName = new.VirtualMachineName}
        updated  == {OnConflictAssignments(r, suffix) : r \in conflict}
        rest     == rows \ conflict
    IN  IF conflict # {}
        THEN IF \E r \in rest, u \in updated :
                    r.VirtualMachineName = u.VirtualMachineName
             THEN [rows |-> rows, id |-> 0, err |-> "unique_violation"]
             ELSE [rows |-> rest \cup updated, id |-> 0, err |-> "nil"]
        ELSE IF \E r \in rows : \/ r.OwnerId = new.OwnerId
                                \/ r.IPAddress = new.IPAddress
                                \/ r.ID = new.ID
             THEN [rows |-> rows, id |-> 0, err |-> "unique_violation"]
             ELSE [rows |-> rows \cup {new}, id |-> new.ID, err |-> "nil"]

\* VirtualMachine.Create.  The conflict target names a column without a unique
\* index and the assignment is an expression the database has to parse, so the
\* database decides whether it accepts the statement at all (accepted).
VirtualMachineCreate(rows, new, suffix, accepted) ==
    IF accepted
    THEN VirtualMachineInsert(rows, new, suffix)
    ELSE [rows |-> rows, id |-> 0, err |-> "invalid_statement"]

\* First statement of Delete: rows matching the primary key that are not
\* soft-deleted yet get DeletedAt set.
VirtualMachineSoftDelete(rows, id) ==
    {IF r.ID = id /\ ~r.DeletedAt THEN [r EXCEPT !.DeletedAt = TRUE] ELSE r
        : r \in rows}

\* Second statement of Delete: Unscoped, rows matching the primary key go.
VirtualMachinePurge(rows, id) == {r \in rows : r.ID # id}

VirtualMachineDelete_SoftOnly(rows, id) ==
    [rows |-> VirtualMachineSoftDelete(rows, id), err |-> "nil"]

\* VirtualMachine.Delete: both statements; the error is the first one's, and
\* a statement that matches no row is not an error.
VirtualMachineDelete(rows, id) ==
    [rows |-> VirtualMachinePurge(VirtualMachineSoftDelete(rows, id), id),
     err  |-> "nil"]

-----------------------------------------------------------------------------
(* models.go: SSHPublicKey *)

NewSshPublicKey(id, vm, KeyContent, Filename) ==
    [ID |-> id, DeletedAt |-> FALSE, Key |-> KeyContent,
     Filename |-> Filename, VirtualMachineID |-> vm]

SSHPublicKeyCreate_NoUnique(rows, new) ==
    [rows |-> rows \cup {new}, err |-> "nil"]

\* SSHPublicKey.Create: a plain INSERT; VirtualMachineID is a unique column.
SSHPublicKeyCreate(rows, new) ==
    IF \E r \in rows : r.VirtualMachineID = new.VirtualMachineID \/ r.ID = new.ID
    THEN [rows |-> rows, err |-> "unique_violation"]
    ELSE [rows |-> rows \cup {new}, err |-> "nil"]

SSHPublicKeyUpdate_NoWhere(rows, vm, NewSshKey) ==
    [rows |-> {[r EXCEPT !.Key = NewSshKey] : r \in rows}, err |-> "nil"]

\* SSHPublicKey.Update: one UPDATE of the Key column, Unscoped, of the rows
\* WHERE virtual_machine_id = this.VirtualMachineID.
SSHPublicKeyUpdate(rows, vm, NewSshKey) ==
    [rows |-> {IF r.VirtualMachineID = vm THEN [r EXCEPT !.Key = NewSshKey] ELSE r
                  : r \in rows},
     err  |-> "nil"]

\* SSHPublicKey.Delete: the primary key is (ID, VirtualMachineID); soft delete,
\* then the Unscoped delete.
SSHPublicKeyDelete(rows, id, vm) ==
    LET match(r) == r.ID = id /\ r.VirtualMachineID = vm
        soft == {IF match(r) /\ ~r.DeletedAt THEN [r EXCEPT !.DeletedAt = TRUE] ELSE r
                    : r \in rows}
    IN  [rows |-> {r \in soft : ~match(r)}, err |-> "nil"]

-----------------------------------------------------------------------------
(* Spec: the repository operations, one call at a time *)

InitRepo ==
    /\ vms = {}
    /\ keys = {}
    /\ nextVmId = 1
    /\ nextKeyId = 1
    /\ last = NoCall

InitRot == rot = [c \in Callers |-> [st |-> "idle", vm |-> 0, key |-> "none"]]
           /\ completed = <<>>

InitSsh ==
    /\ pc = "idle"
    /\ call = [op |-> "none", vm |-> "none", arg |-> "none"]
    /\ calls = <<>>
    /\ sink = <<>>
    /\ logMark = 0
    /\ ret = NoReturn

Init == InitRepo /\ InitRot /\ InitSsh

VMCreate(OwnerId, Name, ItemPath, IPAddress, suffix, accepted) ==
    /\ nextVmId <= MaxVmId
    /\ LET new == NewVirtualMachine(nextVmId, OwnerId, Name, ItemPath, IPAddress)
           res == VirtualMachineCreate(vms, new, suffix, accepted)
       IN  /\ vms' = res.rows
           /\ nextVmId' = IF res.id # 0 THEN nextVmId + 1 ELSE nextVmId
           /\ last' = [op |-> "VMCreate", id |-> res.id, err |-> res.err,
                       hit |-> \E r \in vms :
                                 r.VirtualMachineName = new.VirtualMachineName]
    /\ UNCHANGED <<keys, nextKeyId>>

VMDelete(id) ==
    /\ LET res == VirtualMachineDelete(vms, id)
       IN  /\ vms' = res.rows
           /\ last' = [op |-> "VMDelete", id |-> id, err |-> res.err,
                       hit |-> \E r \in vms : r.ID = id]
    /\ UNCHANGED <<keys, nextVmId, nextKeyId>>

KeyCreate(vm, KeyContent, Filename) ==
    /\ nextKeyId <= MaxKeyId
    /\ LET new == NewSshPublicKey(nextKeyId, vm, KeyContent, Filename)
           res == SSHPublicKeyCreate(keys, new)
       IN  /\ keys' = res.rows
           /\ nextKeyId' = IF res.err = "nil" THEN nextKeyId + 1 ELSE nextKeyId
           /\ last' = [op |-> "KeyCreate", id |-> vm, err |-> res.err,
                       hit |-> \E r \in keys : r.VirtualMachineID = vm]
    /\ UNCHANGED <<vms, nextVmId>>

KeyUpdate(vm, NewSshKey) ==
    /\ LET res == SSHPublicKeyUpdate(keys, vm, NewSshKey)
       IN  /\ keys' = res.rows
           /\ last' = [op |-> "KeyUpdate", id |-> vm, err |-> res.err,
                       hit |-> \E r \in keys : r.VirtualMachineID = vm]
    /\ UNCHANGED <<vms, nextVmId, nextKeyId>>

KeyDelete(id, vm) ==
    /\ LET res == SSHPublicKeyDelete(keys, id, vm)
       IN  /\ keys' = res.rows
           /\ last' = [op |-> "KeyDelete", id |-> vm, err |-> res.err,
                       hit |-> \E r \in keys : r.ID = id /\ r.VirtualMachineID = vm]
    /\ UNCHANGED <<vms, nextVmId, nextKeyId>>

Next ==
    /\ \/ \E o \in Owners, n \in Names, p \in Paths, a \in Addresses,
            s \in Suffixes, ok \in BOOLEAN : VMCreate(o, n, p, a, s, ok)
       \/ \E id \in 1 .. MaxVmId : VMDelete(id)
       \/ \E vm \in VmRefs, k \in KeyBlobs, f \in Filenames : KeyCreate(vm, k, f)
       \/ \E vm \in VmRefs, k \in KeyBlobs : KeyUpdate(vm, k)
       \/ \E id \in 1 .. MaxKeyId, vm \in VmRefs : KeyDelete(id, vm)
    /\ UNCHANGED <<rotVars, sshVars>>

Spec == Init /\ [][Next]_vars

-----------------------------------------------------------------------------
(* SpecRotation: callers run SSHPublicKey.Update concurrently.  A call is    *)
(* its invocation, the one UPDATE statement the database executes           *)
(* atomically, and its return.                                              *)

RotationRows(S) == {NewSshPublicKey(v, v, "k0", "ssh_key.pub") : v \in S}

InitRotation ==
    /\ vms = {}
    /\ \E S \in SUBSET VmRefs : keys = RotationRows(S)
    /\ nextVmId = 1
    /\ nextKeyId = MaxKeyId + 1
    /\ last = NoCall
    /\ InitRot
    /\ InitSsh

InFlight == {c \in Callers : rot[c].st = "called"}

UpdateCall(c, vm, NewSshKey) ==
    /\ rot[c].st = "idle"
    /\ Len(completed) + Cardinality(InFlight) < MaxRotations
    /\ rot' = [rot EXCEPT ![c] = [st |-> "called", vm |-> vm, key |-> NewSshKey]]
    /\ UNCHANGED <<keys, completed>>

UpdateExec(c) ==
    /\ rot[c].st = "called"
    /\ keys' = SSHPublicKeyUpdate(keys, rot[c].vm, rot[c].key).rows
    /\ completed' = Append(completed, [vm |-> rot[c].vm, key |-> rot[c].key])
    /\ rot' = [rot EXCEPT ![c].st = "written"]

UpdateReturn(c) ==
    /\ rot[c].st = "written"
    /\ rot' = [rot EXCEPT ![c] = [st |-> "idle", vm |-> 0, key |-> "none"]]
    /\ UNCHANGED <<keys, completed>>

NextRotation ==
    /\ \/ \E c \in Callers, vm \in VmRefs, k \in KeyBlobs : UpdateCall(c, vm, k)
       \/ \E c \in Callers : UpdateExec(c)
       \/ \E c \in Callers : UpdateReturn(c)
    /\ UNCHANGED <<vms, nextVmId, nextKeyId, last, sshVars>>

SpecRotation == InitRotation /\ [][NextRotation]_vars

-----------------------------------------------------------------------------
(* ssh_config.go.  A manager method runs as a sequence of steps, one per     *)
(* control-plane request it waits for; ok is what the control plane (or the *)
(* deadline of the timeout context) answers.                                *)

Request(api, arg) == [api |-> api, arg |-> arg, res |-> "pending"]

\* The request the call is waiting for gets its answer.
Answered(ok) ==
    [calls EXCEPT ![Len(calls)].res = IF ok THEN "ok" ELSE "error"]

LogEvent(level, msg) == [level |-> level, msg |-> msg]

Return(val, err) == [kind |-> "return", val |-> val, err |-> err]

\* Dereferencing a nil pointer is a run-time panic.
Panic == [kind |-> "panic", val |-> <<>>, err |-> "nil"]

NewSshCertificateCredentials(Content, FileName) ==
    [FileName |-> FileName, Content |-> Content]

\* fmt.Sprintf("VirtualMachine-%s", name)
DistinguishName(name) == <<"VirtualMachine-", name>>

\* bcrypt.GenerateFromPassword: a one-way image of the password.
Bcrypt(password) == <<"bcrypt", password>>

Begin(op, vm, arg, request) ==
    /\ pc = "idle"
    /\ Len(sink) < MaxLog
    /\ call' = [op |-> op, vm |-> vm, arg |-> arg]
    /\ calls' = <<request>>
    /\ logMark' = Len(sink)
    /\ ret' = NoReturn
    /\ UNCHANGED sink

(* GetSshPublicCertificate *)

GetSshPublicCertificate_Begin(vm, SshKeyFileName) ==
    /\ Begin("GetSshPublicCertificate", vm, SshKeyFileName,
             Request("HostSystem", vm))
    /\ pc' = "get_host"

\* Lines 98-101: a FindError is logged and the method goes on; building the
\* manager dereferences CertificateHostManager, which line 92 declares and
\* nothing assigns, so the method panics before it can ask for CertificateInfo.
GetSshPublicCertificate_Host(ok) ==
    /\ pc = "get_host"
    /\ calls' = Answered(ok)
    /\ sink' = IF ok THEN sink
               ELSE Append(sink, LogEvent("Error",
                                "Failed to Determine VM Server Host System"))
    /\ ret' = Panic
    /\ pc' = "idle"
    /\ UNCHANGED <<call, logMark>>

(* UploadSshKeys *)

UploadSshKeys_Begin(vm, Content) ==
    /\ Begin("UploadSshKeys", vm, Content, Request("HostSystem", vm))
    /\ pc' = "upload_host"

UploadSshKeys_Host_NoReturn(ok) ==
    /\ pc = "upload_host"
    /\ calls' = Append(Answered(ok), Request("InstallServerCertificate", call.arg))
    /\ pc' = "upload_install"
    /\ UNCHANGED <<call, sink, logMark, ret>>

UploadSshKeys_Host(ok) ==
    /\ pc = "upload_host"
    /\ IF ok
       THEN /\ calls' = Append(Answered(ok),
                               Request("InstallServerCertificate", call.arg))
            /\ pc' = "upload_install"
            /\ UNCHANGED ret
       ELSE /\ calls' = Answered(ok)
            /\ ret' = Return(<<>>, "Failed to Get Host System Info")
            /\ pc' = "idle"
    /\ UNCHANGED <<call, sink, logMark>>

UploadSshKeys_Installed(ok) ==
    /\ pc = "upload_install"
    /\ calls' = Answered(ok)
    /\ IF ok
       THEN /\ sink' = Append(sink, LogEvent("Debug",
                         "SSH Key has been Successfully Uploaded"))
            /\ ret' = Return(<<>>, "nil")
       ELSE /\ sink' = Append(sink, LogEvent("Error",
                         "Failed to Upload SSH Key to the Remote VM's Host Machine"))
            /\ ret' = Return(<<>>, "Failed to Add SSH Support")
    /\ pc' = "idle"
    /\ UNCHANGED <<call, logMark>>

(* GenerateSshKeys *)

GenerateSshKeys_Begin(vm) ==
    /\ Begin("GenerateSshKeys", vm, "none", Request("HostSystem", vm))
    /\ pc' = "generate_host"

GenerateSshKeys_Host(ok) ==
    /\ pc = "generate_host"
    /\ IF ok
       THEN /\ calls' = Append(Answered(ok),
                               Request("GenerateCertificateSigningRequestByDn",
                                       DistinguishName(call.vm)))
            /\ pc' = "generate_sign"
            /\ UNCHANGED ret
       ELSE /\ calls' = Answered(ok)
            /\ ret' = Return(<<>>, "Failed to Get OS Info")
            /\ pc' = "idle"
    /\ UNCHANGED <<call, sink, logMark>>

\* Line 161: the credentials are built around whatever the request gave and
\* returned next to GenerationError.
GenerateSshKeys_Signed(ok) ==
    /\ pc = "generate_sign"
    /\ calls' = Answered(ok)
    /\ LET dn == calls[Len(calls)].arg
           GeneratedCertificate == IF ok THEN <<"CSR", dn>> ELSE <<>>
           GenerationError == IF ok THEN "nil" ELSE "GenerationError"
       IN  ret' = Return(<<NewSshCertificateCredentials(GeneratedCertificate,
                                                        "ssh_key.pub")>>,
                         GenerationError)
    /\ pc' = "idle"
    /\ UNCHANGED <<call, sink, logMark>>

(* GetSshRootCredentials *)

GetSshRootCredentials_Begin(vm, PasswordUuid) ==
    /\ Begin("GetSshRootCredentials", vm, PasswordUuid, Request("RetrieveOne", vm))
    /\ pc' = "root_retrieve"

GetSshRootCredentials_Retrieved_Always(ok) ==
    /\ pc = "root_retrieve"
    /\ calls' = Answered(ok)
    /\ ret' = Return(<<[Username |-> "root", Password |-> Bcrypt(call.arg)]>>, "nil")
    /\ pc' = "idle"
    /\ UNCHANGED <<call, sink, logMark>>

GetSshRootCredentials_Retrieved(ok) ==
    /\ pc = "root_retrieve"
    /\ calls' = Answered(ok)
    /\ LET SshCredentials == [Username |-> "root", Password |-> Bcrypt(call.arg)]
       IN  IF ok
           THEN /\ ret' = Return(<<SshCredentials>>, "nil")
                /\ UNCHANGED sink
           ELSE /\ sink' = Append(sink, LogEvent("Debug",
                             "Failed to Get VirtualMachine Instance"))
                /\ ret' = Return(<<>>, "RetrieveError")
    /\ pc' = "idle"
    /\ UNCHANGED <<call, logMark>>

NextSsh ==
    /\ \/ \E vm \in VMNames, f \in Filenames : GetSshPublicCertificate_Begin(vm, f)
       \/ \E ok \in BOOLEAN : GetSshPublicCertificate_Host(ok)
       \/ \E vm \in VMNames, k \in KeyBlobs : UploadSshKeys_Begin(vm, k)
       \/ \E ok \in BOOLEAN : UploadSshKeys_Host(ok)
       \/ \E ok \in BOOLEAN : UploadSshKeys_Installed(ok)
       \/ \E vm \in VMNames : GenerateSshKeys_Begin(vm)
       \/ \E ok \in BOOLEAN : GenerateSshKeys_Host(ok)
       \/ \E ok \in BOOLEAN : GenerateSshKeys_Signed(ok)
       \/ \E vm \in VMNames, u \in Uuids : GetSshRootCredentials_Begin(vm, u)
       \/ \E ok \in BOOLEAN : GetSshRootCredentials_Retrieved(ok)
    /\ UNCHANGED <<repoVars, rotVars>>

SpecSsh == Init /\ [][NextSsh]_vars

-----------------------------------------------------------------------------
(* Properties of the repository (Spec) *)

KeyRowsOf(vm) == {r \in keys : r.VirtualMachineID = vm}

AtMostOneKeyPerVM == \A vm \in VmRefs : Cardinality(KeyRowsOf(vm)) <= 1

\* C1: whatever SSHPublicKey Create, Update and Delete calls have run, no
\* virtual machine id has more than one SSHPublicKey row, and a Create for a
\* virtual machine that has a key row leaves the table as it was.
C1_OneKeyPerVM ==
    /\ []AtMostOneKeyPerVM
    /\ [][(last'.op = "KeyCreate" /\ KeyRowsOf(last'.id) # {}) => keys' = keys]_vars

\* A second Create for a virtual machine that has its key row was refused.
C1_Witness ==
    /\ last.op = "KeyCreate"
    /\ last.hit
    /\ last.err # "nil"
    /\ Cardinality(KeyRowsOf(last.id)) = 1

\* C2: no step changes OwnerId, IPAddress or ItemPath of a VirtualMachine row
\* that exists before and after it.
C2_WriteOnce ==
    [][\A r \in vms : \A q \in vms' :
          q.ID = r.ID => /\ q.OwnerId = r.OwnerId
                         /\ q.IPAddress = r.IPAddress
                         /\ q.ItemPath = r.ItemPath]_vars

\* A Create ran into the name of an existing row and the row was updated.
C2_Witness ==
    /\ last.op = "VMCreate"
    /\ last.hit
    /\ last.err = "nil"
    /\ \E r \in vms : Len(r.VirtualMachineName) > 1

C4_SuffixedRowCreated ==
    [][(last'.op = "VMCreate" /\ last'.hit) =>
          /\ last'.err = "nil"
          /\ vms \subseteq vms'
          /\ \E q \in vms' \ vms :
                /\ \A r \in vms : r.ID # q.ID
                /\ \E r \in vms, s \in Suffixes :
                      q.VirtualMachineName = Append(r.VirtualMachineName, s)]_vars

-----------------------------------------------------------------------------
(* Properties of concurrent rotation (SpecRotation) *)

WritesTo(vm) == {i \in 1 .. Len(completed) : completed[i].vm = vm}

LastWriteTo(vm) ==
    completed[CHOOSE i \in WritesTo(vm) : \A j \in WritesTo(vm) : j <= i]

RowIdentities(rows) == {<<r.ID, r.VirtualMachineID>> : r \in rows}

\* C8: once no Update for a virtual machine is waiting to be executed, its key
\* row holds the content of the Update executed last for it; an Update adds
\* and removes no row and leaves the rows of the other virtual machines alone.
C8_LastWriteWins ==
    /\ [](\A vm \in VmRefs :
            (WritesTo(vm) # {} /\ \A c \in InFlight : rot[c].vm # vm) =>
                \A r \in KeyRowsOf(vm) : r.Key = LastWriteTo(vm).key)
    /\ [][/\ RowIdentities(keys') = RowIdentities(keys)
          /\ Len(completed') > Len(completed) =>
                \A r \in keys :
                    r.VirtualMachineID # completed'[Len(completed')].vm => r \in keys']_vars

\* Two callers had rotations of the same virtual machine in flight together,
\* both were executed, and the other virtual machine still has its row.
C8_Witness ==
    /\ \A c \in Callers : rot[c].st = "written" /\ rot[c].vm = 1
    /\ Len(completed) = 2
    /\ completed[1].key # completed[2].key
    /\ KeyRowsOf(1) # {}
    /\ \E r \in KeyRowsOf(2) : r.Key = "k0"

-----------------------------------------------------------------------------
(* Properties of the control-plane managers (SpecSsh) *)

Returned(op) == call.op = op /\ ret.kind # "none"

ErrorLoggedInCall ==
    \E i \in (logMark + 1) .. Len(sink) : sink[i].level = "Error"

\* C5 as claimed: GetSshPublicCertificate ends by returning, and when the host
\* system was not resolved it returns an error, logged before, and no
\* certificate info.
C5_GetReturnsError ==
    Returned("GetSshPublicCertificate") =>
        /\ ret.kind = "return"
        /\ calls[1].res = "error" =>
              (ret.err # "nil" /\ ret.val = <<>> /\ ErrorLoggedInCall)

\* C6: GetSshRootCredentials returns credentials with Username "root" and no
\* error when RetrieveOne succeeded, and an error without credentials when it
\* failed.
C6_RootCredentials ==
    Returned("GetSshRootCredentials") =>
        /\ ret.kind = "return"
        /\ IF calls[1].res = "ok"
           THEN ret.err = "nil" /\ Len(ret.val) = 1 /\ ret.val[1].Username = "root"
           ELSE ret.err # "nil" /\ ret.val = <<>>

\* The retrieval succeeded and the root credentials came back.
C6_Witness ==
    /\ Returned("GetSshRootCredentials")
    /\ calls[1].res = "ok"
    /\ ret.val # <<>>

\* C7 as claimed: GenerateSshKeys returns credentials or an error, never both;
\* a failed request gives an error and no credentials, and success gives the
\* answer to the request for "VirtualMachine-" + name under "ssh_key.pub".
C7_CredentialsOrError ==
    Returned("GenerateSshKeys") =>
        /\ ret.kind = "return"
        /\ ~(ret.val # <<>> /\ ret.err # "nil")
        /\ IF \E i \in 1 .. Len(calls) : calls[i].res = "error"
           THEN ret.err # "nil" /\ ret.val = <<>>
           ELSE /\ ret.err = "nil"
                /\ ret.val = <<NewSshCertificateCredentials(
                                  <<"CSR", DistinguishName(call.vm)>>, "ssh_key.pub")>>

\* C9 as claimed: when UploadSshKeys returns an error, an Error event was
\* written to the log during that call.
C9_FailuresLogged ==
    (Returned("UploadSshKeys") /\ ret.kind = "return" /\ ret.err # "nil") =>
        ErrorLoggedInCall

CertificateOps == {"GenerateSshKeys", "UploadSshKeys", "GetSshPublicCertificate"}

ManagementApis == {"GenerateCertificateSigningRequestByDn",
                   "InstallServerCertificate", "CertificateInfo"}

\* C10: a certificate operation issues the host-resolution request first and
\* once, then at most one management request, and that one only after the
\* resolution succeeded; no request is issued again.
C10_SingleRoundTrip ==
    call.op \in CertificateOps =>
        /\ Len(calls) \in 1 .. 2
        /\ calls[1].api = "HostSystem"
        /\ Len(calls) = 2 => (calls[1].res = "ok" /\ calls[2].api \in ManagementApis)
        /\ ret.kind # "none" => calls[Len(calls)].res # "pending"

\* An upload resolved the host, installed the certificate and returned.
C10_Witness ==
    /\ Returned("UploadSshKeys")
    /\ Len(calls) = 2
    /\ calls[2].api = "InstallServerCertificate"
    /\ calls[2].res = "ok"

====
